---- MODULE Spec2Model ----
(***************************************************************************)
(* A state-machine model of eggo/director.py: the provisioning, describe,  *)
(* login, web-proxy, teardown and configuration workflows of an eggo       *)
(* cluster, run by one operator process against a cloud account.           *)
(*                                                                         *)
(* The cloud account (CloudFormation stacks, EC2 instances and their tags),*)
(* the ssh tunnels of the operator's machine and the Cloudera Manager      *)
(* state of each cluster are the world; `frame` is the single-threaded     *)
(* operator process: its position, its call stack and its local variables. *)
(* Every call that can raise has a failing outcome beside the successful   *)
(* one; an exception unwinds the whole invocation, as no function of the   *)
(* module catches one.                                                     *)
(***************************************************************************)
EXTENDS Naturals, Sequences, FiniteSets, TLC

VARIABLES
    cf_stacks,            \* names of the CloudFormation stacks that exist
    instances,            \* EC2 instances ever launched, by id (1..Len)
    open_tunnels,         \* local port -> number of ssh tunnels open on it
    cm,                   \* stack name -> state of its Cloudera Manager cluster
    frame,                \* the operator process: position, call stack, locals
    last_cli,             \* history: stack -> launcher returned by the last
                          \*   create_launcher_instance since the last teardown
    torn_down,            \* history: stacks torn down and not provisioned since
    created_as_launcher,  \* history: stack -> ids provision launched as launcher
    invocations           \* history: commands the operator has entered so far

vars == <<cf_stacks, instances, open_tunnels, cm, frame, last_cli, torn_down,
          created_as_launcher, invocations>>

world == <<cf_stacks, instances, open_tunnels, cm>>
history == <<last_cli, torn_down, created_as_launcher, invocations>>

(***************************************************************************)
(* Bounds of the model.                                                    *)
(***************************************************************************)
MaxInstances == 5
MaxWorkers == 1
MaxInvocations == 3
MaxTemplateLen == 3

Stacks == {"s1", "s2"}
NodeTypes == {"launcher", "manager", "master", "worker"}
LoginNodes == {"master", "manager", "launcher", "worker", "bogus"}
NoTag == "none"
NoInstance == 0
IndexError == "IndexError"

CM_PORT == 7180
CM_LOCAL_PORT == 64999
YARN_RM_PORT == 8088
YARN_JH_PORT == 19888
Ports == {CM_PORT, YARN_RM_PORT, YARN_JH_PORT, CM_LOCAL_PORT}

(***************************************************************************)
(* Straight-line bodies of the functions: the labels of their statements   *)
(* in program order.  A statement's action moves to the label after it.    *)
(***************************************************************************)
provision_body_without_bootstrap ==
    <<"p_create_cf_stack", "p_create_launcher_instance", "p_print">>

provision_body ==
    <<"p_create_cf_stack", "p_create_launcher_instance",
      "p_run_director_bootstrap", "p_print">>

create_launcher_instance_body ==
    <<"cli_get_tagged_instances", "cli_interface", "cli_run_instances",
      "cli_tag_owner", "cli_tag_key_pair", "cli_tag_stack_name",
      "cli_tag_node_type", "cli_wait_for_instance_state",
      "cli_install_director_client", "cli_install_private_key">>

run_director_bootstrap_body ==
    <<"rdb_interpolate", "rdb_put", "rdb_run">>

describe_body ==
    <<"d_launcher", "d_manager", "d_master", "d_workers">>

login_body ==
    <<"l_node", "l_open_shell">>

web_proxy_body ==
    <<"wp_get_manager_instance", "wp_get_master_instance",
      "wp_get_worker_instances", "wp_tunnel_cm", "wp_tunnel_rm",
      "wp_tunnel_jh", "wp_wait", "wp_finally">>

terminate_launcher_instance_body ==
    <<"tli_get_launcher_instance", "tli_terminate",
      "tli_wait_for_instance_state">>

adjust_yarn_memory_limits_body_without_wait ==
    <<"ay_get_manager_instance", "ay_tunnel", "ay_get_config_groups",
      "ay_update_rm", "ay_update_nm", "ay_deploy_client_config",
      "ay_restart", "ay_restart_wait", "ay_close">>

adjust_yarn_memory_limits_body ==
    <<"ay_get_manager_instance", "ay_tunnel", "ay_get_config_groups",
      "ay_update_rm", "ay_update_nm", "ay_deploy_client_config",
      "ay_deploy_client_config_wait", "ay_restart", "ay_restart_wait",
      "ay_close">>

install_java_8_body_one_tunnel ==
    <<"ij_get_instances", "ij_tunnel_1", "ij_stop_mgmt", "ij_stop_mgmt_wait",
      "ij_stop_cluster", "ij_stop_cluster_wait", "ij_close_1",
      "ij_stop_cm_agents", "ij_stop_cm_server", "ij_swap_jdks",
      "ij_start_cm_server", "ij_start_cm_agents",
      "ij_start_cluster", "ij_start_cluster_wait", "ij_start_mgmt",
      "ij_start_mgmt_wait", "ij_close_2">>

install_java_8_body ==
    <<"ij_get_instances", "ij_tunnel_1", "ij_stop_mgmt", "ij_stop_mgmt_wait",
      "ij_stop_cluster", "ij_stop_cluster_wait", "ij_close_1",
      "ij_stop_cm_agents", "ij_stop_cm_server", "ij_swap_jdks",
      "ij_start_cm_server", "ij_start_cm_agents", "ij_tunnel_2",
      "ij_start_cluster", "ij_start_cluster_wait", "ij_start_mgmt",
      "ij_start_mgmt_wait", "ij_close_2">>

install_opencb_body ==
    <<"io_ga4gh", "io_java_common", "io_biodata", "io_hpg_bigdata">>

install_env_vars_body ==
    <<"ev_get_manager_instance", "ev_tunnel", "ev_generate", "ev_close",
      "ev_get_master_instance", "ev_do">>

config_cluster_body_tools_first ==
    <<"cc_get_master_instance", "cc_install_private_key",
      "cc_create_hdfs_home", "cc_adjust_yarn_memory_limits",
      "cc_install_dev_tools", "cc_install_java_8", "cc_install_git",
      "cc_install_maven", "cc_install_gradle", "cc_install_parquet_tools",
      "cc_install_adam", "cc_install_opencb", "cc_install_gatk",
      "cc_install_quince", "cc_install_eggo", "cc_install_env_vars",
      "cc_print">>

config_cluster_body ==
    <<"cc_get_master_instance", "cc_install_private_key",
      "cc_create_hdfs_home", "cc_adjust_yarn_memory_limits",
      "cc_install_java_8", "cc_install_dev_tools", "cc_install_git",
      "cc_install_maven", "cc_install_gradle", "cc_install_parquet_tools",
      "cc_install_adam", "cc_install_opencb", "cc_install_gatk",
      "cc_install_quince", "cc_install_eggo", "cc_install_env_vars",
      "cc_print">>

\* The statements inside a `with cm_tunnel_ctx(...)` block.
ScopedLabels ==
    {"ay_get_config_groups", "ay_update_rm", "ay_update_nm",
     "ay_deploy_client_config", "ay_deploy_client_config_wait", "ay_restart",
     "ay_restart_wait", "ay_close",
     "ij_stop_mgmt", "ij_stop_mgmt_wait", "ij_stop_cluster",
     "ij_stop_cluster_wait", "ij_close_1",
     "ij_start_cluster", "ij_start_cluster_wait", "ij_start_mgmt",
     "ij_start_mgmt_wait", "ij_close_2",
     "ev_generate", "ev_close"}

teardown_body_keeps_launcher ==
    <<"t_get_launcher_instance", "t_run_director_terminate", "t_delete_stack">>

teardown_body_deletes_stack_first ==
    <<"t_get_launcher_instance", "t_run_director_terminate", "t_delete_stack",
      "t_terminate_launcher_instance">>

teardown_body ==
    <<"t_get_launcher_instance", "t_run_director_terminate",
      "t_terminate_launcher_instance", "t_delete_stack">>

Bodies ==
    {provision_body, create_launcher_instance_body,
     run_director_bootstrap_body, describe_body, login_body, web_proxy_body,
     terminate_launcher_instance_body, teardown_body,
     adjust_yarn_memory_limits_body, install_java_8_body,
     install_opencb_body, install_env_vars_body, config_cluster_body}

\* The label after label l in its body, "return" after the last one.
After(l) ==
    LET b == CHOOSE b \in Bodies : \E i \in 1..Len(b) : b[i] = l
        i == CHOOSE i \in 1..Len(b) : b[i] = l
    IN  IF i < Len(b) THEN b[i + 1] ELSE "return"

(***************************************************************************)
(* The operator process.                                                   *)
(***************************************************************************)
IdleFrame ==
    [pc |-> "idle", stack |-> <<>>, op |-> "none", stack_name |-> "none",
     node |-> "none", num_workers |-> 0, status |-> "idle", err |-> "none",
     failed_at |-> "none", launcher_instance |-> NoInstance,
     manager_instance |-> NoInstance, master_instance |-> NoInstance,
     worker_instances |-> {}, hosts |-> {}, tunnels |-> <<>>,
     printed |-> <<>>, trace |-> <<>>, clean |-> FALSE,
     cli_prev |-> NoInstance, lookups |-> 0, remote |-> 0,
     restart |-> FALSE, adam |-> FALSE, opencb |-> FALSE, gatk |-> FALSE,
     quince |-> FALSE, ctx |-> FALSE, handle |-> "none", cmd_failures |-> 0,
     fan |-> "none", todo |-> {}, failed |-> {},
     template |-> <<>>, params |-> <<>>,
     rendered |-> [done |-> FALSE, raised |-> FALSE, text |-> <<>>]]

\* A fresh invocation of top-level operation op, entered at label entry.
NewFrame(op, entry, stack_name) ==
    [IdleFrame EXCEPT !.pc = entry, !.op = op, !.stack_name = stack_name,
                      !.status = "running",
                      !.clean = (cf_stacks = {} /\ instances = <<>>)]

\* Return from the current function: to the caller, or out of the invocation.
Return(f) ==
    IF f.stack = <<>>
    THEN [f EXCEPT !.pc = "exit", !.status = "ok"]
    ELSE [f EXCEPT !.pc = Head(f.stack), !.stack = Tail(f.stack)]

\* Fall through to the next statement of the body.
Advance(f) ==
    IF After(f.pc) = "return" THEN Return(f) ELSE [f EXCEPT !.pc = After(f.pc)]

\* Call the function whose first label is entry; come back to the statement
\* after the call.
Call(f, entry) ==
    IF After(f.pc) = "return"
    THEN [f EXCEPT !.pc = entry]
    ELSE [f EXCEPT !.pc = entry, !.stack = <<After(f.pc)>> \o f.stack]

\* An uncaught exception: the invocation ends where it is.
Raise(f, e) ==
    [f EXCEPT !.pc = "exit", !.stack = <<>>, !.status = "error", !.err = e,
              !.failed_at = f.pc]

\* The operator enters a command at the prompt.
Enter ==
    /\ frame.pc = "idle"
    /\ invocations < MaxInvocations
    /\ invocations' = invocations + 1

Event(f, e) == [f EXCEPT !.trace = Append(f.trace, e)]

At(l) == frame.pc = l

(***************************************************************************)
(* The cloud account.                                                      *)
(***************************************************************************)
NewInstance ==
    [state |-> "pending", owner |-> FALSE, ec2_key_pair |-> FALSE,
     eggo_stack_name |-> NoTag, eggo_node_type |-> NoTag,
     director_client |-> FALSE, id_pem |-> FALSE]

ClusterInstance(stack_name, node_type) ==
    [state |-> "running", owner |-> TRUE, ec2_key_pair |-> TRUE,
     eggo_stack_name |-> stack_name, eggo_node_type |-> node_type,
     director_client |-> FALSE, id_pem |-> FALSE]

Ids == DOMAIN instances

\* eggo.aws.get_tagged_instances: the live instances carrying both tags.
get_tagged_instances(stack_name, node_type) ==
    {i \in Ids : /\ instances[i].eggo_stack_name = stack_name
                 /\ instances[i].eggo_node_type = node_type
                 /\ instances[i].state \notin {"shutting-down", "terminated"}}

Subscript0_or_none(l) ==
    IF l = {}
    THEN {[raised |-> FALSE, value |-> NoInstance]}
    ELSE {[raised |-> FALSE, value |-> i] : i \in l}

\* l[0] of a Python list: any element the provider may have put first, or
\* IndexError raised on the empty list.
Subscript0(l) ==
    IF l = {}
    THEN {[raised |-> TRUE, value |-> NoInstance]}
    ELSE {[raised |-> FALSE, value |-> i] : i \in l}

get_launcher_instance(stack_name) ==
    Subscript0(get_tagged_instances(stack_name, "launcher"))

get_manager_instance(stack_name) ==
    Subscript0(get_tagged_instances(stack_name, "manager"))

get_master_instance(stack_name) ==
    Subscript0(get_tagged_instances(stack_name, "master"))

get_worker_instances(stack_name) ==
    get_tagged_instances(stack_name, "worker")

Looked(f) == [f EXCEPT !.lookups = @ + 1]

\* The instances of the cluster of a stack, the launcher excluded.
ClusterIds(stack_name) ==
    {i \in Ids : /\ instances[i].eggo_stack_name = stack_name
                 /\ instances[i].eggo_node_type \in {"manager", "master", "worker"}
                 /\ instances[i].state \notin {"shutting-down", "terminated"}}

NoCM ==
    [mgmt |-> FALSE, cluster |-> FALSE, server |-> FALSE, agents |-> {},
     jdk8 |-> {}, rm_limits |-> FALSE, nm_limits |-> FALSE,
     client_config |-> FALSE, installed |-> {}]

FreshCM(hosts) ==
    [NoCM EXCEPT !.mgmt = TRUE, !.cluster = TRUE, !.server = TRUE,
                 !.agents = hosts]

\* EC2 itself: a pending instance comes up, a shutting-down one goes away.
instance_running ==
    /\ \E i \in Ids :
          /\ instances[i].state = "pending"
          /\ instances' = [instances EXCEPT ![i].state = "running"]
    /\ UNCHANGED <<cf_stacks, open_tunnels, cm, frame, history>>

instance_terminated ==
    /\ \E i \in Ids :
          /\ instances[i].state = "shutting-down"
          /\ instances' = [instances EXCEPT ![i].state = "terminated"]
    /\ UNCHANGED <<cf_stacks, open_tunnels, cm, frame, history>>


(***************************************************************************)
(* create_launcher_instance (lines 71-102).                                *)
(***************************************************************************)
launcher_never_reused(launcher_instances) == FALSE

\* line 76: len(launcher_instances) > 0
launcher_exists(launcher_instances) == Cardinality(launcher_instances) > 0

\* `return launcher_instance`: the launcher step of the invocation is done.
create_launcher_instance_return(f, i) ==
    Return([Event(f, "launcher_ready") EXCEPT
                !.launcher_instance = i,
                !.cli_prev = last_cli[f.stack_name]])

create_launcher_instance(stack_name) ==
    /\ Enter
    /\ frame' = NewFrame("create_launcher_instance",
                         create_launcher_instance_body[1], stack_name)
    /\ torn_down' = torn_down \ {stack_name}
    /\ UNCHANGED <<world, last_cli, created_as_launcher>>

\* lines 73-79: reuse the tagged launcher when there is one.
cli_get_tagged_instances ==
    /\ At("cli_get_tagged_instances")
    /\ LET launcher_instances ==
               get_tagged_instances(frame.stack_name, "launcher")
       IN  IF launcher_exists(launcher_instances)
           THEN \E r \in Subscript0(launcher_instances) :
                   IF r.raised
                   THEN /\ frame' = Raise(Looked(frame), IndexError)
                        /\ UNCHANGED last_cli
                   ELSE /\ frame' = create_launcher_instance_return(
                                        Looked(frame), r.value)
                        /\ last_cli' = [last_cli EXCEPT
                               ![frame.stack_name] = r.value]
           ELSE /\ frame' = Advance(Looked(frame))
                /\ UNCHANGED last_cli
    /\ UNCHANGED <<world, torn_down, created_as_launcher, invocations>>

\* lines 83-87: the subnet and security group of the stack.
cli_interface ==
    /\ At("cli_interface")
    /\ frame' = IF frame.stack_name \in cf_stacks
                THEN Advance(frame)
                ELSE Raise(frame, "StackNotFound")
    /\ UNCHANGED <<world, history>>

\* lines 88-93: ec2_conn.run_instances.
cli_run_instances ==
    /\ At("cli_run_instances")
    /\ \/ /\ Len(instances) < MaxInstances
          /\ instances' = Append(instances, NewInstance)
          /\ frame' = Advance([Event(frame, "run_instances") EXCEPT
                                   !.launcher_instance = Len(instances) + 1])
          /\ created_as_launcher' =
                 [created_as_launcher EXCEPT
                      ![frame.stack_name] =
                          IF frame.op = "provision"
                          THEN @ \cup {Len(instances) + 1}
                          ELSE @]
       \/ /\ frame' = Raise(frame, "EC2ResponseError")
          /\ UNCHANGED <<instances, created_as_launcher>>
    /\ UNCHANGED <<cf_stacks, open_tunnels, cm, last_cli, torn_down, invocations>>

\* launcher_instance.add_tag(key, value): one EC2 call, which may fail.
add_tag(label, tagged) ==
    /\ At(label)
    /\ \/ /\ instances' =
                 [instances EXCEPT ![frame.launcher_instance] = tagged]
          /\ frame' = Advance(frame)
       \/ /\ frame' = Raise(frame, "EC2ResponseError")
          /\ UNCHANGED instances
    /\ UNCHANGED <<cf_stacks, open_tunnels, cm, history>>

\* line 95
cli_tag_owner ==
    add_tag("cli_tag_owner",
            [instances[frame.launcher_instance] EXCEPT !.owner = TRUE])

\* line 96
cli_tag_key_pair ==
    add_tag("cli_tag_key_pair",
            [instances[frame.launcher_instance] EXCEPT !.ec2_key_pair = TRUE])

\* line 97
cli_tag_stack_name ==
    add_tag("cli_tag_stack_name",
            [instances[frame.launcher_instance] EXCEPT
                 !.eggo_stack_name = frame.stack_name])

\* line 98
cli_tag_node_type ==
    add_tag("cli_tag_node_type",
            [instances[frame.launcher_instance] EXCEPT
                 !.eggo_node_type = "launcher"])

\* eggo.aws.wait_for_instance_state: polls until the instance is in the
\* state; a poll may fail.
wait_for_instance_state(label, i, state) ==
    /\ At(label)
    /\ \/ /\ i \in Ids
          /\ instances[i].state = state
          /\ frame' = Advance(Event(frame, state))
       \/ frame' = Raise(frame, "EC2ResponseError")
    /\ UNCHANGED <<world, history>>

\* line 99
cli_wait_for_instance_state ==
    wait_for_instance_state("cli_wait_for_instance_state",
                            frame.launcher_instance, "running")

Remote(f) == [f EXCEPT !.remote = @ + 1]

\* line 100: execute(install_director_client, hosts=[launcher])
cli_install_director_client ==
    /\ At("cli_install_director_client")
    /\ \/ /\ instances' = [instances EXCEPT
                 ![frame.launcher_instance].director_client = TRUE]
          /\ frame' = Advance(Remote(frame))
       \/ /\ frame' = Raise(Remote(frame), "FabricAbort")
          /\ UNCHANGED instances
    /\ UNCHANGED <<cf_stacks, open_tunnels, cm, history>>

\* lines 101-102: execute(install_private_key, hosts=[launcher]); return
cli_install_private_key ==
    /\ At("cli_install_private_key")
    /\ \/ /\ instances' = [instances EXCEPT
                 ![frame.launcher_instance].id_pem = TRUE]
          /\ frame' = create_launcher_instance_return(
                          Remote(frame), frame.launcher_instance)
          /\ last_cli' = [last_cli EXCEPT
                 ![frame.stack_name] = frame.launcher_instance]
       \/ /\ frame' = Raise(Remote(frame), "FabricAbort")
          /\ UNCHANGED <<instances, last_cli>>
    /\ UNCHANGED <<cf_stacks, open_tunnels, cm, torn_down,
                   created_as_launcher, invocations>>

(***************************************************************************)
(* The configuration template of run_director_bootstrap (lines 109-122):   *)
(* `template_file.read() % params`.                                        *)
(***************************************************************************)
\* The keys of params (lines 109-119).
ParamKeys ==
    {"accessKeyId", "secretAccessKey", "region", "stack_name", "owner",
     "keyName", "subnetId", "securityGroupsIds", "image", "num_workers",
     "worker_instance_type"}

\* A piece of literal text without a percent sign, and the conversion
\* specification %(key)s.
Text(s) == [ph |-> FALSE, s |-> s]

Placeholder(key) == [ph |-> TRUE, s |-> key]

\* The specification %%, which stands for one percent sign, and a percent
\* sign that begins no specification.
Escape == [ph |-> TRUE, s |-> "%%"]

Stray == [ph |-> TRUE, s |-> "%"]

\* str() of a non-negative integer, digit by digit.
RECURSIVE IntToStr(_)
IntToStr(n) ==
    LET digit == Text(<<"0", "1", "2", "3", "4", "5", "6", "7", "8",
                        "9">>[(n % 10) + 1])
    IN  IF n < 10 THEN <<digit>> ELSE IntToStr(n \div 10) \o <<digit>>

\* str() of a value of params: num_workers is a number, the others are text.
Str(v) == IF v.int THEN IntToStr(v.n) ELSE <<Text(v.s)>>

Substitute_keeps_placeholder(t, params) == <<t>>

\* What one piece of the template becomes.
Substitute(t, params) ==
    IF t = Escape
    THEN <<Text("%")>>
    ELSE IF t.ph THEN Str(params[t.s]) ELSE <<t>>

\* template % params: KeyError when a placeholder's key is not in params,
\* ValueError at a stray percent sign.
RECURSIVE Interpolate(_, _)
Interpolate(template, params) ==
    IF template = <<>>
    THEN [done |-> TRUE, raised |-> FALSE, text |-> <<>>]
    ELSE IF \/ Head(template) = Stray
            \/ /\ Head(template).ph
               /\ Head(template) # Escape
               /\ Head(template).s \notin DOMAIN params
    THEN [done |-> TRUE, raised |-> TRUE, text |-> <<>>]
    ELSE LET rest == Interpolate(Tail(template), params)
         IN  IF rest.raised
             THEN rest
             ELSE [rest EXCEPT !.text =
                       Substitute(Head(template), params) \o @]

\* line 121: interpolated_body = template_file.read() % params
interpolate ==
    /\ frame.pc = "idle"
    /\ ~frame.rendered.done
    /\ frame' = [frame EXCEPT !.rendered =
                     Interpolate(frame.template, frame.params)]
    /\ UNCHANGED <<world, history>>

(***************************************************************************)
(* run_director_bootstrap (lines 105-125), run on the launcher.            *)
(***************************************************************************)
\* lines 108-122: the parameters of the stack, the template interpolated.
rdb_interpolate ==
    /\ At("rdb_interpolate")
    /\ frame' = IF frame.stack_name \in cf_stacks
                THEN Advance(frame)
                ELSE Raise(frame, "StackNotFound")
    /\ UNCHANGED <<world, history>>

\* Whether a remote command can be run on instance i at all.
Reachable(i) == i \in Ids /\ instances[i].state = "running"

\* line 123: put(director_conf, 'director.conf')
rdb_put ==
    /\ At("rdb_put")
    /\ \/ /\ Reachable(frame.launcher_instance)
          /\ frame' = Advance(Remote(frame))
       \/ frame' = Raise(Remote(frame), "FabricAbort")
    /\ UNCHANGED <<world, history>>

\* What `cloudera-director bootstrap` needs to bring a cluster up: its client
\* and the key on the launcher, the stack's network, no cluster yet, and
\* room for a manager, a master and the workers.
CanBootstrap(f) ==
    /\ Reachable(f.launcher_instance)
    /\ instances[f.launcher_instance].director_client
    /\ instances[f.launcher_instance].id_pem
    /\ f.stack_name \in cf_stacks
    /\ ClusterIds(f.stack_name) = {}
    /\ Len(instances) + 2 + f.num_workers <= MaxInstances

Bootstrapped(f) ==
    instances
        \o <<ClusterInstance(f.stack_name, "manager"),
             ClusterInstance(f.stack_name, "master")>>
        \o [k \in 1..f.num_workers |-> ClusterInstance(f.stack_name, "worker")]

\* line 125: run('cloudera-director bootstrap director.conf')
rdb_run ==
    /\ At("rdb_run")
    /\ \/ /\ CanBootstrap(frame)
          /\ instances' = Bootstrapped(frame)
          /\ cm' = [cm EXCEPT ![frame.stack_name] =
                        FreshCM((Len(instances) + 1) ..
                                (Len(instances) + 2 + frame.num_workers))]
          /\ frame' = Advance(Event(Event(Remote(frame), "bootstrap_invoked"),
                                    "bootstrapped"))
       \/ /\ frame' = Raise(Event(Remote(frame), "bootstrap_invoked"),
                            "FabricAbort")
          /\ UNCHANGED <<instances, cm>>
    /\ UNCHANGED <<cf_stacks, open_tunnels, history>>

(***************************************************************************)
(* provision (lines 128-152).                                              *)
(***************************************************************************)
provision(stack_name, num_workers) ==
    /\ Enter
    /\ frame' = [NewFrame("provision", provision_body[1], stack_name)
                     EXCEPT !.num_workers = num_workers]
    /\ torn_down' = torn_down \ {stack_name}
    /\ UNCHANGED <<world, last_cli, created_as_launcher>>

\* eggo.aws.create_cf_stack: creates the stack; an existing stack of the
\* name is reused, or is an error when it is incompatible.
create_cf_stack(stack_name) ==
    IF stack_name \in cf_stacks
    THEN {"stack_reused", "error"}
    ELSE {"stack_created", "error"}

\* lines 134-135
p_create_cf_stack ==
    /\ At("p_create_cf_stack")
    /\ \E r \in create_cf_stack(frame.stack_name) :
          IF r = "error"
          THEN /\ frame' = Raise(frame, "CloudFormationError")
               /\ UNCHANGED cf_stacks
          ELSE /\ frame' = Advance(Event(frame, r))
               /\ cf_stacks' = cf_stacks \cup {frame.stack_name}
    /\ UNCHANGED <<instances, open_tunnels, cm, history>>

\* lines 138-140
p_create_launcher_instance ==
    /\ At("p_create_launcher_instance")
    /\ frame' = Call(frame, create_launcher_instance_body[1])
    /\ UNCHANGED <<world, history>>

\* lines 143-148: execute(run_director_bootstrap, hosts=[launcher])
p_run_director_bootstrap ==
    /\ At("p_run_director_bootstrap")
    /\ frame' = Call(frame, run_director_bootstrap_body[1])
    /\ UNCHANGED <<world, history>>

\* lines 150-152
p_print ==
    /\ At("p_print")
    /\ frame' = Advance([frame EXCEPT
                    !.printed = Append(@, "Cluster has started")])
    /\ UNCHANGED <<world, history>>

(***************************************************************************)
(* describe (lines 175-181).                                               *)
(***************************************************************************)
describe(stack_name) ==
    /\ Enter
    /\ frame' = NewFrame("describe", describe_body[1], stack_name)
    /\ UNCHANGED <<world, last_cli, torn_down, created_as_launcher>>

print_line(f, what) == [f EXCEPT !.printed = Append(@, what)]

describe_one_stopping(label, name, outcomes) ==
    /\ At(label)
    /\ \E r \in outcomes :
          frame' = IF r.raised
                   THEN Raise(Looked(frame), IndexError)
                   ELSE Advance(print_line(Looked(frame), <<name, {r.value}>>))
    /\ instances' = [i \in DOMAIN instances |->
                         [instances[i] EXCEPT !.state = "stopped"]]
    /\ UNCHANGED <<cf_stacks, open_tunnels, cm, history>>

\* A statement that resolves one instance and prints its address.
describe_one(label, name, outcomes) ==
    /\ At(label)
    /\ \E r \in outcomes :
          frame' = IF r.raised
                   THEN Raise(Looked(frame), IndexError)
                   ELSE Advance(print_line(Looked(frame), <<name, {r.value}>>))
    /\ UNCHANGED <<world, history>>

\* line 177
d_launcher ==
    describe_one("d_launcher", "Launcher",
                 get_launcher_instance(frame.stack_name))

\* line 178
d_manager ==
    describe_one("d_manager", "Manager",
                 get_manager_instance(frame.stack_name))

\* line 179
d_master ==
    describe_one("d_master", "Master", get_master_instance(frame.stack_name))

\* lines 180-181
d_workers ==
    /\ At("d_workers")
    /\ frame' = Advance(print_line(Looked(frame),
                    <<"Worker", get_worker_instances(frame.stack_name)>>))
    /\ UNCHANGED <<world, history>>

(***************************************************************************)
(* login (lines 184-195).                                                  *)
(***************************************************************************)
login(stack_name, node) ==
    /\ Enter
    /\ frame' = [NewFrame("login", login_body[1], stack_name)
                     EXCEPT !.node = node]
    /\ UNCHANGED <<world, last_cli, torn_down, created_as_launcher>>

login_hosts_defaulting(node, stack_name) ==
    IF node = "master" THEN get_master_instance(stack_name)
    ELSE IF node = "manager" THEN get_manager_instance(stack_name)
    ELSE get_launcher_instance(stack_name)

\* lines 187-194: the if/elif chain over node.
login_hosts(node, stack_name) ==
    IF node = "master" THEN get_master_instance(stack_name)
    ELSE IF node = "manager" THEN get_manager_instance(stack_name)
    ELSE IF node = "launcher" THEN get_launcher_instance(stack_name)
    ELSE {}

\* lines 185-194
l_node ==
    /\ At("l_node")
    /\ LET outcomes == login_hosts(frame.node, frame.stack_name)
       IN  IF outcomes = {}
           THEN frame' = Raise(frame, "EggoError")
           ELSE \E r \in outcomes :
                   frame' = IF r.raised
                            THEN Raise(Looked(frame), IndexError)
                            ELSE Advance([Looked(frame) EXCEPT
                                              !.hosts = {r.value}])
    /\ UNCHANGED <<world, history>>

\* line 195: execute(open_shell, hosts=hosts)
l_open_shell ==
    /\ At("l_open_shell")
    /\ \/ /\ \A h \in frame.hosts : Reachable(h)
          /\ frame' = Advance(Event(Remote(frame), "open_shell"))
       \/ frame' = Raise(Remote(frame), "FabricAbort")
    /\ UNCHANGED <<world, history>>

(***************************************************************************)
(* teardown (lines 243-265).                                               *)
(***************************************************************************)
teardown(stack_name) ==
    /\ Enter
    /\ frame' = NewFrame("teardown", teardown_body[1], stack_name)
    /\ last_cli' = [last_cli EXCEPT ![stack_name] = NoInstance]
    /\ UNCHANGED <<world, torn_down, created_as_launcher>>

\* A statement that resolves the launcher into launcher_instance.
resolve_launcher(label) ==
    /\ At(label)
    /\ \E r \in get_launcher_instance(frame.stack_name) :
          frame' = IF r.raised
                   THEN Raise(Looked(frame), IndexError)
                   ELSE Advance([Looked(frame) EXCEPT
                                     !.launcher_instance = r.value])
    /\ UNCHANGED <<world, history>>

\* line 258: hosts=[get_launcher_instance(ec2_conn, stack_name).ip_address]
t_get_launcher_instance == resolve_launcher("t_get_launcher_instance")

\* `cloudera-director terminate`: the manager, the master and the workers of
\* the stack are terminated.
Terminated(stack_name) ==
    [i \in Ids |->
        IF i \in ClusterIds(stack_name)
        THEN [instances[i] EXCEPT !.state = "terminated"]
        ELSE instances[i]]

\* lines 243-245, 257: execute(run_director_terminate, hosts=[launcher])
t_run_director_terminate ==
    /\ At("t_run_director_terminate")
    /\ \/ /\ Reachable(frame.launcher_instance)
          /\ instances[frame.launcher_instance].director_client
          /\ instances' = Terminated(frame.stack_name)
          /\ cm' = [cm EXCEPT ![frame.stack_name] = NoCM]
          /\ frame' = Advance(Event(Remote(frame), "director_terminate"))
       \/ /\ frame' = Raise(Remote(frame), "FabricAbort")
          /\ UNCHANGED <<instances, cm>>
    /\ UNCHANGED <<cf_stacks, open_tunnels, history>>

\* line 261
t_terminate_launcher_instance ==
    /\ At("t_terminate_launcher_instance")
    /\ frame' = Call(frame, terminate_launcher_instance_body[1])
    /\ UNCHANGED <<world, history>>

\* line 249
tli_get_launcher_instance == resolve_launcher("tli_get_launcher_instance")

\* line 250: launcher_instance.terminate()
tli_terminate ==
    /\ At("tli_terminate")
    /\ \/ /\ frame.launcher_instance \in Ids
          /\ instances' = [instances EXCEPT ![frame.launcher_instance] =
                 [@ EXCEPT !.state = "shutting-down",
                           !.director_client = FALSE, !.id_pem = FALSE]]
          /\ frame' = Advance(Event(frame, "launcher_terminate"))
       \/ /\ frame' = Raise(frame, "EC2ResponseError")
          /\ UNCHANGED instances
    /\ UNCHANGED <<cf_stacks, open_tunnels, cm, history>>

\* line 251
tli_wait_for_instance_state ==
    wait_for_instance_state("tli_wait_for_instance_state",
                            frame.launcher_instance, "terminated")

\* lines 264-265: delete_stack(cf_conn, stack_name)
t_delete_stack ==
    /\ At("t_delete_stack")
    /\ \/ /\ cf_stacks' = cf_stacks \ {frame.stack_name}
          /\ frame' = Advance(Event(frame, "stack_deleted"))
          /\ torn_down' = torn_down \cup {frame.stack_name}
       \/ /\ frame' = Raise(frame, "CloudFormationError")
          /\ UNCHANGED <<cf_stacks, torn_down>>
    /\ UNCHANGED <<instances, open_tunnels, cm, last_cli, created_as_launcher,
                   invocations>>

(***************************************************************************)
(* The configuration workflows: scoped tunnels, cluster-manager calls and  *)
(* remote execution.                                                       *)
(***************************************************************************)
\* A statement that resolves one instance into a local variable.
resolve(label, outcomes, local) ==
    /\ At(label)
    /\ \E r \in outcomes :
          frame' = IF r.raised
                   THEN Raise(Looked(frame), IndexError)
                   ELSE Advance([Looked(frame) EXCEPT ![local] = r.value])
    /\ UNCHANGED <<world, history>>

\* eggo.util.tunnel_ctx, entering: the tunnel on localhost:64999 is opened.
tunnel_ctx_enter(tunnels) ==
    [tunnels EXCEPT ![CM_LOCAL_PORT] = @ + 1]

\* eggo.util.tunnel_ctx, leaving: the tunnel is closed.
tunnel_ctx_exit(tunnels) ==
    [tunnels EXCEPT ![CM_LOCAL_PORT] = IF @ > 0 THEN @ - 1 ELSE 0]

with_left_open_on_raise(tunnels) == tunnels

\* An exception leaving a `with cm_tunnel_ctx(...)` block runs the context
\* manager's exit.
with_exit_on_raise(tunnels) == tunnel_ctx_exit(tunnels)

\* `with cm_tunnel_ctx(manager_instance) as local_port:` is entered.
with_cm_tunnel_ctx(label) ==
    /\ At(label)
    /\ \/ /\ open_tunnels' = tunnel_ctx_enter(open_tunnels)
          /\ frame' = Advance([frame EXCEPT !.ctx = TRUE])
       \/ /\ frame' = Raise(frame, "TunnelError")
          /\ UNCHANGED open_tunnels
    /\ UNCHANGED <<cf_stacks, instances, cm, history>>

\* The end of the with block is reached.
with_close(label) ==
    /\ At(label)
    /\ open_tunnels' = tunnel_ctx_exit(open_tunnels)
    /\ frame' = Advance([frame EXCEPT !.ctx = FALSE])
    /\ UNCHANGED <<cf_stacks, instances, cm, history>>

\* An exception raised inside the with block.
RaiseInScope(e) ==
    /\ frame' = [Raise(frame, e) EXCEPT !.ctx = FALSE]
    /\ open_tunnels' = with_exit_on_raise(open_tunnels)

\* The manager's API answers through the tunnel while its server runs.
ApiUp(f) ==
    /\ f.ctx
    /\ Reachable(f.manager_instance)
    /\ cm[f.stack_name].server

\* A call of the cluster-manager API that completes within the call.
cm_call(label, ok_frame, ok_cm) ==
    /\ At(label)
    /\ \/ /\ ApiUp(frame)
          /\ frame' = Advance(ok_frame)
          /\ cm' = [cm EXCEPT ![frame.stack_name] = ok_cm]
          /\ UNCHANGED open_tunnels
       \/ /\ RaiseInScope("ApiException")
          /\ UNCHANGED cm
    /\ UNCHANGED <<cf_stacks, instances, history>>

\* A mutating call: it returns the handle of the command it started.
cm_command(label, name) ==
    cm_call(label, [Event(frame, name) EXCEPT !.handle = name],
            cm[frame.stack_name])

command_failed_raises(f) ==
    Raise([f EXCEPT !.cmd_failures = @ + 1], "CommandFailed")

\* wait() has returned a command that did not succeed: the return value is
\* dropped and the next statement runs.
command_failed(f) ==
    Advance([Event(f, "wait") EXCEPT !.handle = "none",
                                     !.cmd_failures = @ + 1])

\* handle.wait(): blocks until the command has completed, successfully or
\* not; the result is not looked at.
cm_wait(label, done_cm) ==
    /\ At(label)
    /\ \/ /\ ApiUp(frame)
          /\ frame' = Advance([Event(frame, "wait") EXCEPT !.handle = "none"])
          /\ cm' = [cm EXCEPT ![frame.stack_name] = done_cm]
          /\ UNCHANGED open_tunnels
       \/ /\ ApiUp(frame)
          /\ frame' = command_failed(frame)
          /\ UNCHANGED <<cm, open_tunnels>>
       \/ /\ RaiseInScope("ApiException")
          /\ UNCHANGED cm
    /\ UNCHANGED <<cf_stacks, instances, history>>

\* execute(task, hosts=[host]): the task runs on one host, or aborts.
remote_step(label, host, name, can_run, ok_cm) ==
    /\ At(label)
    /\ \/ /\ Reachable(host)
          /\ can_run
          /\ cm' = [cm EXCEPT ![frame.stack_name] = ok_cm]
          /\ frame' = Advance(Event(Remote(frame), name))
       \/ /\ frame' = Raise(Remote(frame), "FabricAbort")
          /\ UNCHANGED cm
    /\ UNCHANGED <<cf_stacks, instances, open_tunnels, history>>

Installed(name) ==
    [cm[frame.stack_name] EXCEPT !.installed = @ \cup {name}]

\* A task that fetches or configures: it can be run again.
install(label, name) ==
    remote_step(label, frame.master_instance, name, TRUE, Installed(name))

\* A task that creates a directory (hadoop fs -mkdir, git clone): it fails
\* when the directory is there already.
install_once(label, name) ==
    remote_step(label, frame.master_instance, name,
                name \notin cm[frame.stack_name].installed, Installed(name))

\* A statement whose condition is false.
skip(label) ==
    /\ At(label)
    /\ frame' = Advance(frame)
    /\ UNCHANGED <<world, history>>

\* A call of another function of the module.
call(label, f, entry) ==
    /\ At(label)
    /\ frame' = Call(f, entry)
    /\ UNCHANGED <<world, history>>

join_ignoring_failures(f, name) ==
    Advance([Event(f, name) EXCEPT !.fan = "none"])

\* The end of a parallel execute(): it aborts when the task failed on a
\* host, and returns otherwise.
join(f, name) ==
    IF f.failed = {}
    THEN Advance([Event(f, name) EXCEPT !.fan = "none"])
    ELSE Raise([f EXCEPT !.fan = "none"], "FabricAbort")

\* execute(task, hosts=cluster_hosts) of a @parallel task: the task is
\* started on every host, the hosts finish in any order, and the execution
\* aborts after the join when the task failed on a host.
fan_out(label, name, done) ==
    /\ At(label)
    /\ \/ /\ frame.fan = "none"
          /\ frame' = [Remote(frame) EXCEPT !.fan = "running",
                                            !.todo = frame.hosts,
                                            !.failed = {}]
          /\ UNCHANGED cm
       \/ /\ frame.fan = "running"
          /\ \E h \in frame.todo :
                \/ /\ Reachable(h)
                   /\ cm' = [cm EXCEPT ![frame.stack_name] = done[h]]
                   /\ frame' = [frame EXCEPT !.todo = @ \ {h}]
                \/ /\ frame' = [frame EXCEPT !.todo = @ \ {h},
                                             !.failed = @ \cup {h}]
                   /\ UNCHANGED cm
       \/ /\ frame.fan = "running"
          /\ frame.todo = {}
          /\ frame' = join(frame, name)
          /\ UNCHANGED cm
    /\ UNCHANGED <<cf_stacks, instances, open_tunnels, history>>

(***************************************************************************)
(* adjust_yarn_memory_limits (lines 463-487).                              *)
(***************************************************************************)
adjust_yarn_memory_limits(stack_name, restart) ==
    /\ Enter
    /\ frame' = [NewFrame("adjust_yarn_memory_limits",
                          adjust_yarn_memory_limits_body[1], stack_name)
                     EXCEPT !.restart = restart]
    /\ UNCHANGED <<world, last_cli, torn_down, created_as_launcher>>

\* lines 464-465
ay_get_manager_instance ==
    resolve("ay_get_manager_instance",
            get_manager_instance(frame.stack_name), "manager_instance")

\* line 466
ay_tunnel == with_cm_tunnel_ctx("ay_tunnel")

\* lines 467-476: the cluster, a host, the YARN service, its config groups
ay_get_config_groups ==
    cm_call("ay_get_config_groups", frame, cm[frame.stack_name])

\* lines 477-480
ay_update_rm ==
    cm_call("ay_update_rm", Event(frame, "update_rm"),
            [cm[frame.stack_name] EXCEPT !.rm_limits = TRUE])

\* lines 481-484
ay_update_nm ==
    cm_call("ay_update_nm", Event(frame, "update_nm"),
            [cm[frame.stack_name] EXCEPT !.nm_limits = TRUE])

\* line 485: cluster.deploy_client_config()
ay_deploy_client_config ==
    cm_command("ay_deploy_client_config", "deploy_client_config")

\* line 485: .wait()
ay_deploy_client_config_wait ==
    cm_wait("ay_deploy_client_config_wait",
            [cm[frame.stack_name] EXCEPT !.client_config = TRUE])

ay_restart_always == cm_command("ay_restart", "restart")

\* lines 486-487: if restart: cluster.restart()
ay_restart ==
    IF frame.restart
    THEN cm_command("ay_restart", "restart")
    ELSE /\ At("ay_restart")
         /\ frame' = Advance(Advance(frame))
         /\ UNCHANGED <<world, history>>

\* line 487: .wait()
ay_restart_wait ==
    cm_wait("ay_restart_wait", [cm[frame.stack_name] EXCEPT !.cluster = TRUE])

\* the with block of line 466 ends
ay_close == with_close("ay_close")

(***************************************************************************)
(* install_env_vars (lines 490-507).                                       *)
(***************************************************************************)
install_env_vars(stack_name) ==
    /\ Enter
    /\ frame' = NewFrame("install_env_vars", install_env_vars_body[1],
                         stack_name)
    /\ UNCHANGED <<world, last_cli, torn_down, created_as_launcher>>

\* line 494
ev_get_manager_instance ==
    resolve("ev_get_manager_instance",
            get_manager_instance(frame.stack_name), "manager_instance")

\* line 495
ev_tunnel == with_cm_tunnel_ctx("ev_tunnel")

\* lines 496-497: generate_eggo_env_vars queries the manager's API
ev_generate ==
    cm_call("ev_generate", Event(frame, "generate_eggo_env_vars"),
            cm[frame.stack_name])

\* the with block of line 495 ends
ev_close == with_close("ev_close")

\* line 506
ev_get_master_instance ==
    resolve("ev_get_master_instance",
            get_master_instance(frame.stack_name), "master_instance")

\* lines 501-507: execute(do, hosts=[master_host])
ev_do == install("ev_do", "eggo_env_vars")

(***************************************************************************)
(* install_java_8 (lines 268-344).                                         *)
(***************************************************************************)
install_java_8(stack_name) ==
    /\ Enter
    /\ frame' = NewFrame("install_java_8", install_java_8_body[1], stack_name)
    /\ UNCHANGED <<world, last_cli, torn_down, created_as_launcher>>

\* lines 271-276: the manager, the workers and the master of the stack
ij_get_instances ==
    /\ At("ij_get_instances")
    /\ \E m \in get_manager_instance(frame.stack_name),
          ms \in get_master_instance(frame.stack_name) :
          frame' =
              IF m.raised
              THEN Raise(Looked(frame), IndexError)
              ELSE IF ms.raised
              THEN Raise(Looked(Looked(Looked(frame))), IndexError)
              ELSE Advance([Looked(Looked(Looked(frame))) EXCEPT
                       !.manager_instance = m.value,
                       !.master_instance = ms.value,
                       !.worker_instances =
                           get_worker_instances(frame.stack_name),
                       !.hosts = get_worker_instances(frame.stack_name)
                                     \cup {m.value, ms.value}])
    /\ UNCHANGED <<world, history>>

\* line 278
ij_tunnel_1 == with_cm_tunnel_ctx("ij_tunnel_1")

\* lines 280-287: mgmt_service.stop()
ij_stop_mgmt == cm_command("ij_stop_mgmt", "mgmt_stop")

\* line 287: .wait()
ij_stop_mgmt_wait ==
    cm_wait("ij_stop_mgmt_wait", [cm[frame.stack_name] EXCEPT !.mgmt = FALSE])

\* lines 289-293: cluster.stop()
ij_stop_cluster == cm_command("ij_stop_cluster", "cluster_stop")

\* line 293: .wait()
ij_stop_cluster_wait ==
    cm_wait("ij_stop_cluster_wait",
            [cm[frame.stack_name] EXCEPT !.cluster = FALSE])

\* the with block of line 278 ends
ij_close_1 == with_close("ij_close_1")

\* lines 295-299: execute(stop_cm_agents, hosts=cluster_hosts)
ij_stop_cm_agents ==
    fan_out("ij_stop_cm_agents", "stop_cm_agents",
            [h \in frame.todo |->
                [cm[frame.stack_name] EXCEPT !.agents = @ \ {h}]])

\* lines 301-304: execute(stop_cm_server, hosts=[manager])
ij_stop_cm_server ==
    remote_step("ij_stop_cm_server", frame.manager_instance,
                "stop_cm_server", TRUE,
                [cm[frame.stack_name] EXCEPT !.server = FALSE])

\* lines 306-319: execute(swap_jdks, hosts=cluster_hosts)
ij_swap_jdks ==
    fan_out("ij_swap_jdks", "swap_jdks",
            [h \in frame.todo |->
                [cm[frame.stack_name] EXCEPT !.jdk8 = @ \cup {h}]])

\* lines 321-324: execute(start_cm_server, hosts=[manager])
ij_start_cm_server ==
    remote_step("ij_start_cm_server", frame.manager_instance,
                "start_cm_server", TRUE,
                [cm[frame.stack_name] EXCEPT !.server = TRUE])

\* lines 326-330: execute(start_cm_agents, hosts=cluster_hosts)
ij_start_cm_agents ==
    fan_out("ij_start_cm_agents", "start_cm_agents",
            [h \in frame.todo |->
                [cm[frame.stack_name] EXCEPT !.agents = @ \cup {h}]])

\* line 332
ij_tunnel_2 == with_cm_tunnel_ctx("ij_tunnel_2")

\* lines 334-340: cluster.start()
ij_start_cluster == cm_command("ij_start_cluster", "cluster_start")

\* line 340: .wait()
ij_start_cluster_wait ==
    cm_wait("ij_start_cluster_wait",
            [cm[frame.stack_name] EXCEPT !.cluster = TRUE])

\* lines 341-344: mgmt_service.start()
ij_start_mgmt == cm_command("ij_start_mgmt", "mgmt_start")

\* line 344: .wait()
ij_start_mgmt_wait ==
    cm_wait("ij_start_mgmt_wait", [cm[frame.stack_name] EXCEPT !.mgmt = TRUE])

\* the with block of line 332 ends
ij_close_2 == with_close("ij_close_2")

(***************************************************************************)
(* install_opencb (lines 430-434) and config_cluster (lines 510-545).      *)
(***************************************************************************)
\* line 431
io_ga4gh == install_once("io_ga4gh", "opencb_ga4gh")

\* line 432
io_java_common == install_once("io_java_common", "opencb_java_common")

\* line 433
io_biodata == install_once("io_biodata", "opencb_biodata")

\* line 434
io_hpg_bigdata == install_once("io_hpg_bigdata", "opencb_hpg_bigdata")

config_cluster(stack_name, adam, opencb, gatk, quince) ==
    /\ Enter
    /\ frame' = [NewFrame("config_cluster", config_cluster_body[1],
                          stack_name)
                     EXCEPT !.adam = adam, !.opencb = opencb, !.gatk = gatk,
                            !.quince = quince]
    /\ UNCHANGED <<world, last_cli, torn_down, created_as_launcher>>

\* lines 514-515
cc_get_master_instance ==
    resolve("cc_get_master_instance", get_master_instance(frame.stack_name),
            "master_instance")

\* line 517
cc_install_private_key == install("cc_install_private_key", "id.pem")

\* line 518
cc_create_hdfs_home == install_once("cc_create_hdfs_home", "hdfs_home")

\* line 520: adjust_yarn_memory_limits(region, stack_name, restart=False)
cc_adjust_yarn_memory_limits ==
    call("cc_adjust_yarn_memory_limits", [frame EXCEPT !.restart = FALSE],
         adjust_yarn_memory_limits_body[1])

\* line 521
cc_install_java_8 ==
    call("cc_install_java_8", frame, install_java_8_body[1])

\* line 524
cc_install_dev_tools == install("cc_install_dev_tools", "dev_tools")

\* line 525
cc_install_git == install("cc_install_git", "git")

\* line 526
cc_install_maven == install("cc_install_maven", "maven")

\* line 527
cc_install_gradle == install("cc_install_gradle", "gradle")

\* line 528
cc_install_parquet_tools ==
    install("cc_install_parquet_tools", "parquet_tools")

\* lines 529-531
cc_install_adam ==
    IF frame.adam
    THEN install_once("cc_install_adam", "adam")
    ELSE skip("cc_install_adam")

\* lines 532-533
cc_install_opencb ==
    IF frame.opencb
    THEN call("cc_install_opencb", frame, install_opencb_body[1])
    ELSE skip("cc_install_opencb")

\* lines 534-535
cc_install_gatk ==
    IF frame.gatk
    THEN install_once("cc_install_gatk", "gatk")
    ELSE skip("cc_install_gatk")

\* lines 536-538
cc_install_quince ==
    IF frame.quince
    THEN install_once("cc_install_quince", "quince")
    ELSE skip("cc_install_quince")

\* line 539
cc_install_eggo == install_once("cc_install_eggo", "eggo")

\* line 542
cc_install_env_vars ==
    call("cc_install_env_vars", frame, install_env_vars_body[1])

\* lines 544-545
cc_print ==
    /\ At("cc_print")
    /\ frame' = Advance(print_line(frame, "Cluster configured"))
    /\ UNCHANGED <<world, history>>

(***************************************************************************)
(* web_proxy (lines 198-240).                                              *)
(***************************************************************************)
web_proxy(stack_name) ==
    /\ Enter
    /\ frame' = NewFrame("web_proxy", web_proxy_body[1], stack_name)
    /\ UNCHANGED <<world, last_cli, torn_down, created_as_launcher>>

\* line 200
wp_get_manager_instance ==
    resolve("wp_get_manager_instance",
            get_manager_instance(frame.stack_name), "manager_instance")

\* line 201
wp_get_master_instance ==
    resolve("wp_get_master_instance", get_master_instance(frame.stack_name),
            "master_instance")

\* lines 202-206
wp_get_worker_instances ==
    /\ At("wp_get_worker_instances")
    /\ frame' = Advance([Looked(frame) EXCEPT !.worker_instances =
                             get_worker_instances(frame.stack_name)])
    /\ UNCHANGED <<world, history>>

\* eggo.util.non_blocking_tunnel: starts the ssh tunnel on the local port and
\* returns its handle.
non_blocking_tunnel(tunnels, port) == [tunnels EXCEPT ![port] = @ + 1]

\* tunnel.terminate()
terminate(tunnels, port) ==
    [tunnels EXCEPT ![port] = IF @ > 0 THEN @ - 1 ELSE 0]

\* tunnels.append(non_blocking_tunnel(...)); print(...): the tunnel is
\* opened, or the call fails or is interrupted.
open_tunnel(label, port) ==
    /\ At(label)
    /\ \/ /\ open_tunnels' = non_blocking_tunnel(open_tunnels, port)
          /\ frame' = Advance([frame EXCEPT !.tunnels = Append(@, port)])
       \/ /\ frame' = Raise(frame, "KeyboardInterrupt")
          /\ UNCHANGED open_tunnels
    /\ UNCHANGED <<cf_stacks, instances, cm, history>>

\* lines 208-215
wp_tunnel_cm == open_tunnel("wp_tunnel_cm", CM_PORT)

\* lines 217-224
wp_tunnel_rm == open_tunnel("wp_tunnel_rm", YARN_RM_PORT)

\* lines 226-233
wp_tunnel_jh == open_tunnel("wp_tunnel_jh", YARN_JH_PORT)

\* lines 235-237: tunnels[-1].wait() returns, or the operator interrupts it;
\* either way the finally clause runs next.
wp_wait ==
    /\ At("wp_wait")
    /\ \/ frame' = Advance(frame)
       \/ frame' = Advance([frame EXCEPT !.err = "KeyboardInterrupt"])
    /\ UNCHANGED <<world, history>>

RECURSIVE terminate_all(_, _)
terminate_all(tunnels, ports) ==
    IF ports = <<>>
    THEN tunnels
    ELSE terminate_all(terminate(tunnels, Head(ports)), Tail(ports))

\* lines 238-240: for tunnel in tunnels: tunnel.terminate(); the exception
\* of the try block, if any, goes on.
wp_finally ==
    /\ At("wp_finally")
    /\ open_tunnels' = terminate_all(open_tunnels, frame.tunnels)
    /\ frame' = IF frame.err = "none"
                THEN Advance([frame EXCEPT !.tunnels = <<>>])
                ELSE [Raise([frame EXCEPT !.tunnels = <<>>], frame.err)
                          EXCEPT !.failed_at = "wp_wait"]
    /\ UNCHANGED <<cf_stacks, instances, cm, history>>

\* The invocation is over: the process is ready for the next command.
exit ==
    /\ At("exit")
    /\ frame' = IdleFrame
    /\ UNCHANGED <<world, history>>

(***************************************************************************)
(* The specification of the cluster's life cycle.                          *)
(***************************************************************************)
Init ==
    /\ cf_stacks = {}
    /\ instances = <<>>
    /\ open_tunnels = [p \in Ports |-> 0]
    /\ cm = [s \in Stacks |-> NoCM]
    /\ frame = IdleFrame
    /\ last_cli = [s \in Stacks |-> NoInstance]
    /\ torn_down = {}
    /\ created_as_launcher = [s \in Stacks |-> {}]
    /\ invocations = 0

Next ==
    \/ \E s \in Stacks : create_launcher_instance(s)
    \/ cli_get_tagged_instances
    \/ cli_interface
    \/ cli_run_instances
    \/ cli_tag_owner
    \/ cli_tag_key_pair
    \/ cli_tag_stack_name
    \/ cli_tag_node_type
    \/ cli_wait_for_instance_state
    \/ cli_install_director_client
    \/ cli_install_private_key
    \/ rdb_interpolate
    \/ rdb_put
    \/ rdb_run
    \/ \E s \in Stacks, n \in 0..MaxWorkers : provision(s, n)
    \/ p_create_cf_stack
    \/ p_create_launcher_instance
    \/ p_run_director_bootstrap
    \/ p_print
    \/ \E s \in Stacks : describe(s)
    \/ d_launcher
    \/ d_manager
    \/ d_master
    \/ d_workers
    \/ \E s \in Stacks, node \in LoginNodes : login(s, node)
    \/ l_node
    \/ l_open_shell
    \/ \E s \in Stacks : teardown(s)
    \/ t_get_launcher_instance
    \/ t_run_director_terminate
    \/ t_terminate_launcher_instance
    \/ tli_get_launcher_instance
    \/ tli_terminate
    \/ tli_wait_for_instance_state
    \/ t_delete_stack
    \/ exit
    \/ instance_running
    \/ instance_terminated

Spec == Init /\ [][Next]_vars

(***************************************************************************)
(* The specifications of the operations on a provisioned cluster: the      *)
(* account as a completed provision of stack s1 leaves it.                 *)
(***************************************************************************)
InitProvisioned ==
    /\ \E num_workers \in 0..MaxWorkers :
          /\ instances =
                 <<[state |-> "running", owner |-> TRUE, ec2_key_pair |-> TRUE,
                    eggo_stack_name |-> "s1", eggo_node_type |-> "launcher",
                    director_client |-> TRUE, id_pem |-> TRUE],
                   ClusterInstance("s1", "manager"),
                   ClusterInstance("s1", "master")>>
                 \o [k \in 1..num_workers |-> ClusterInstance("s1", "worker")]
          /\ cm = [s \in Stacks |->
                      IF s = "s1"
                      THEN FreshCM(2..(3 + num_workers))
                      ELSE NoCM]
    /\ cf_stacks = {"s1"}
    /\ open_tunnels = [p \in Ports |-> 0]
    /\ frame = IdleFrame
    /\ last_cli = [s \in Stacks |-> IF s = "s1" THEN 1 ELSE NoInstance]
    /\ torn_down = {}
    /\ created_as_launcher = [s \in Stacks |-> IF s = "s1" THEN {1} ELSE {}]
    /\ invocations = 1

NextConfig ==
    \/ \E s \in Stacks, restart \in BOOLEAN :
          adjust_yarn_memory_limits(s, restart)
    \/ ay_get_manager_instance
    \/ ay_tunnel
    \/ ay_get_config_groups
    \/ ay_update_rm
    \/ ay_update_nm
    \/ ay_deploy_client_config
    \/ ay_deploy_client_config_wait
    \/ ay_restart
    \/ ay_restart_wait
    \/ ay_close
    \/ \E s \in Stacks : install_env_vars(s)
    \/ ev_get_manager_instance
    \/ ev_tunnel
    \/ ev_generate
    \/ ev_close
    \/ ev_get_master_instance
    \/ ev_do
    \/ \E s \in Stacks : install_java_8(s)
    \/ ij_get_instances
    \/ ij_tunnel_1
    \/ ij_stop_mgmt
    \/ ij_stop_mgmt_wait
    \/ ij_stop_cluster
    \/ ij_stop_cluster_wait
    \/ ij_close_1
    \/ ij_stop_cm_agents
    \/ ij_stop_cm_server
    \/ ij_swap_jdks
    \/ ij_start_cm_server
    \/ ij_start_cm_agents
    \/ ij_tunnel_2
    \/ ij_start_cluster
    \/ ij_start_cluster_wait
    \/ ij_start_mgmt
    \/ ij_start_mgmt_wait
    \/ ij_close_2
    \/ \E s \in Stacks, adam, opencb, gatk, quince \in BOOLEAN :
          config_cluster(s, adam, opencb, gatk, quince)
    \/ cc_get_master_instance
    \/ cc_install_private_key
    \/ cc_create_hdfs_home
    \/ cc_adjust_yarn_memory_limits
    \/ cc_install_java_8
    \/ cc_install_dev_tools
    \/ cc_install_git
    \/ cc_install_maven
    \/ cc_install_gradle
    \/ cc_install_parquet_tools
    \/ cc_install_adam
    \/ cc_install_opencb
    \/ io_ga4gh
    \/ io_java_common
    \/ io_biodata
    \/ io_hpg_bigdata
    \/ cc_install_gatk
    \/ cc_install_quince
    \/ cc_install_eggo
    \/ cc_install_env_vars
    \/ cc_print
    \/ exit

SpecConfig == InitProvisioned /\ [][NextConfig]_vars

NextProxy ==
    \/ \E s \in Stacks : web_proxy(s)
    \/ wp_get_manager_instance
    \/ wp_get_master_instance
    \/ wp_get_worker_instances
    \/ wp_tunnel_cm
    \/ wp_tunnel_rm
    \/ wp_tunnel_jh
    \/ wp_wait
    \/ wp_finally
    \/ exit

SpecProxy == InitProvisioned /\ [][NextProxy]_vars

(***************************************************************************)
(* The specification of the template's interpolation: templates of up to   *)
(* MaxTemplateLen pieces, and params with or without one of its keys.      *)
(***************************************************************************)
InitRender ==
    LET pieces == {Text("a"), Escape, Stray}
                      \cup {Placeholder(k) : k \in ParamKeys \cup {"other"}}
        value(k, n) == IF k = "num_workers"
                       THEN [int |-> TRUE, n |-> n, s |-> ""]
                       ELSE [int |-> FALSE, n |-> 0, s |-> k]
    IN  /\ cf_stacks = {}
        /\ instances = <<>>
        /\ open_tunnels = [p \in Ports |-> 0]
        /\ cm = [s \in Stacks |-> NoCM]
        /\ last_cli = [s \in Stacks |-> NoInstance]
        /\ torn_down = {}
        /\ created_as_launcher = [s \in Stacks |-> {}]
        /\ invocations = 0
        /\ \E len \in 0..MaxTemplateLen :
              \E t \in [1..len -> pieces], n \in {0, 5, 12},
                 keys \in {ParamKeys, ParamKeys \ {"owner"}} :
                 frame = [IdleFrame EXCEPT
                              !.template = t,
                              !.params = [k \in keys |-> value(k, n)]]

NextRender == interpolate

SpecRender == InitRender /\ [][NextRender]_vars

(***************************************************************************)
(* Properties of the life cycle.                                           *)
(***************************************************************************)
Range(q) == {q[i] : i \in DOMAIN q}

IsPrefix(p, q) == Len(p) <= Len(q) /\ \A i \in 1..Len(p) : p[i] = q[i]

Live(i) == instances[i].state \notin {"shutting-down", "terminated"}

\* C1: when create_launcher_instance returns for stack S and an earlier call
\* for S has returned with no teardown of S since, the call has launched no
\* instance, returns the instance the earlier call returned, and exactly one
\* instance is tagged eggo_stack_name=S, eggo_node_type=launcher.
C1_SecondCallReusesLauncher ==
    ("launcher_ready" \in Range(frame.trace)
        /\ frame.cli_prev # NoInstance)
    => /\ frame.launcher_instance = frame.cli_prev
       /\ "run_instances" \notin Range(frame.trace)
       /\ get_tagged_instances(frame.stack_name, "launcher")
              = {frame.cli_prev}

C1_Witness ==
    /\ frame.op = "create_launcher_instance"
    /\ frame.status = "ok"
    /\ frame.cli_prev # NoInstance
    /\ instances[frame.cli_prev].id_pem

\* The events of a provision on a clean account, in order.
ProvisionEvents ==
    <<"stack_created", "run_instances", "running", "launcher_ready",
      "bootstrap_invoked", "bootstrapped">>

\* C2: a provision started on a clean account does its steps in the order
\* stack created, launcher launched and ready, bootstrap invoked, each at
\* most once; when it ends without error each has happened exactly once and
\* the account holds the stack, one launcher, one manager, one master and
\* num_workers workers tagged for it.
C2_ProvisionPhasesInOrder ==
    (frame.op = "provision" /\ frame.clean)
    => /\ IsPrefix(frame.trace, ProvisionEvents)
       /\ "run_instances" \in Range(frame.trace)
              => frame.stack_name \in cf_stacks
       /\ frame.status = "ok"
              => /\ frame.trace = ProvisionEvents
                 /\ frame.stack_name \in cf_stacks
                 /\ get_tagged_instances(frame.stack_name, "launcher")
                        = {frame.launcher_instance}
                 /\ Cardinality(get_tagged_instances(frame.stack_name,
                                                     "manager")) = 1
                 /\ Cardinality(get_tagged_instances(frame.stack_name,
                                                     "master")) = 1
                 /\ Cardinality(get_tagged_instances(frame.stack_name,
                                                     "worker"))
                        = frame.num_workers

C2_Witness ==
    /\ frame.op = "provision"
    /\ frame.clean
    /\ frame.status = "ok"
    /\ frame.num_workers = MaxWorkers

\* The events of a teardown, in order.
TeardownEvents ==
    <<"director_terminate", "launcher_terminate", "terminated",
      "stack_deleted">>

\* C3: teardown runs director terminate, then the launcher's termination and
\* the wait for its terminated state, then the stack's deletion, in that
\* order; when director terminate fails nothing else has been done, and the
\* stack is deleted only once the launcher is in the terminated state.
C3_TeardownInOrder ==
    frame.op = "teardown"
    => /\ IsPrefix(frame.trace, TeardownEvents)
       /\ frame.failed_at = "t_run_director_terminate"
              => /\ frame.trace = <<>>
                 /\ Live(frame.launcher_instance)
       /\ "stack_deleted" \in Range(frame.trace)
              => instances[frame.launcher_instance].state = "terminated"

C3_Witness ==
    /\ frame.op = "teardown"
    /\ frame.status = "ok"
    /\ frame.trace = TeardownEvents

\* C4: a describe of stack S entered after a teardown of S has completed
\* without error, S not having been provisioned again since, fails with
\* IndexError at the launcher lookup and prints nothing.
C4_DescribeFailsAfterTeardown ==
    (frame.op = "describe" /\ frame.stack_name \in torn_down)
    => /\ frame.printed = <<>>
       /\ frame.pc \in {"d_launcher", "exit"}
       /\ frame.pc = "exit"
              => /\ frame.status = "error"
                 /\ frame.err = IndexError
                 /\ frame.failed_at = "d_launcher"

C4_Witness ==
    /\ frame.op = "describe"
    /\ frame.stack_name \in torn_down
    /\ frame.pc = "exit"

\* The statements that resolve the one instance of a node type, with the type.
SingletonLookups ==
    [d_launcher |-> "launcher", d_manager |-> "manager",
     d_master |-> "master", t_get_launcher_instance |-> "launcher",
     tli_get_launcher_instance |-> "launcher", l_node |-> frame.node]

\* C5: a statement that resolves the launcher, the manager or the master of
\* a stack, executed when no live instance carries the two tags, raises
\* IndexError and ends the invocation; it never goes on with an empty result.
C5_NoInstanceIsAnError ==
    [][\A l \in DOMAIN SingletonLookups :
          (/\ frame.pc = l
           /\ frame'.pc # l
           /\ SingletonLookups[l] \in {"launcher", "manager", "master"}
           /\ get_tagged_instances(frame.stack_name, SingletonLookups[l]) = {})
          => /\ frame'.pc = "exit"
             /\ frame'.status = "error"
             /\ frame'.err = IndexError]_vars

C5_Witness ==
    /\ frame.err = IndexError
    /\ frame.failed_at = "d_manager"

\* C6: login with a node other than master, manager or launcher ends in
\* EggoError at the node check, having looked up no instance and opened no
\* shell or command on any host.
C6_LoginRejectsUnknownNode ==
    (frame.op = "login" /\ frame.node \notin {"master", "manager", "launcher"})
    => /\ frame.lookups = 0
       /\ frame.remote = 0
       /\ frame.hosts = {}
       /\ frame.pc \in {"l_node", "exit"}
       /\ frame.pc = "exit"
              => frame.status = "error" /\ frame.err = "EggoError"

C6_Witness ==
    /\ frame.op = "login"
    /\ frame.node = "worker"
    /\ frame.pc = "exit"
    /\ get_tagged_instances(frame.stack_name, "worker") # {}

\* C9: however provision invocations of a stack fail and are repeated, at
\* most one live instance has ever been launched as the stack's launcher.
C9_AtMostOneLauncherLaunched ==
    \A s \in Stacks :
        Cardinality({i \in created_as_launcher[s] : Live(i)}) <= 1

(***************************************************************************)
(* Properties of the tunnels and of failing steps.                         *)
(***************************************************************************)
\* C7: the tunnel of cm_tunnel_ctx is open exactly while adjust_yarn_memory_
\* limits, install_java_8 or install_env_vars is inside a with block: it is
\* closed as soon as the block is left, by reaching its end or by an
\* exception of a cluster-manager call within it, so none is open once the
\* operation has returned or failed.
C7_ScopedTunnelClosedOutsideScope ==
    open_tunnels[CM_LOCAL_PORT] = IF frame.pc \in ScopedLabels THEN 1 ELSE 0

C7_Witness ==
    /\ frame.op = "install_java_8"
    /\ frame.pc = "exit"
    /\ frame.status = "error"
    /\ frame.err = "ApiException"
    /\ frame.failed_at = "ij_start_cluster_wait"
    /\ open_tunnels[CM_LOCAL_PORT] = 0

\* C8: when web_proxy has exited, by the end of the wait, by an interrupt or
\* by a failure while a tunnel was being opened, no tunnel to port 7180,
\* 8088 or 19888 is open.
C8_WebProxyLeavesNoTunnel ==
    (frame.op = "web_proxy" /\ frame.pc = "exit")
    => \A p \in {CM_PORT, YARN_RM_PORT, YARN_JH_PORT} : open_tunnels[p] = 0

\* C10: once a step of provision or config_cluster has failed, be it an
\* exception or a cluster-manager command that completed unsuccessfully, the
\* invocation executes no further step: its only move is to end.
C10_FailedStepEndsInvocation ==
    [][(/\ frame.op \in {"provision", "config_cluster"}
        /\ \/ frame.cmd_failures > 0
           \/ frame.status = "error")
       => frame'.pc \in {"exit", "idle"}]_vars

(***************************************************************************)
(* Properties of the configuration workflows.                              *)
(***************************************************************************)
\* The events of adjust_yarn_memory_limits, in order.
YarnEvents(restart) ==
    <<"update_rm", "update_nm", "deploy_client_config", "wait">>
    \o (IF restart THEN <<"restart", "wait">> ELSE <<>>)

\* The events of install_java_8, in order.
JavaEvents ==
    <<"mgmt_stop", "wait", "cluster_stop", "wait", "stop_cm_agents",
      "stop_cm_server", "swap_jdks", "start_cm_server", "start_cm_agents",
      "cluster_start", "wait", "mgmt_start", "wait">>

\* The events of config_cluster with the flags of invocation f, in order.
ConfigEvents(f) ==
    <<"id.pem", "hdfs_home">>
    \o YarnEvents(FALSE)
    \o JavaEvents
    \o <<"dev_tools", "git", "maven", "gradle", "parquet_tools">>
    \o (IF f.adam THEN <<"adam">> ELSE <<>>)
    \o (IF f.opencb
        THEN <<"opencb_ga4gh", "opencb_java_common", "opencb_biodata",
               "opencb_hpg_bigdata">>
        ELSE <<>>)
    \o (IF f.gatk THEN <<"gatk">> ELSE <<>>)
    \o (IF f.quince THEN <<"quince">> ELSE <<>>)
    \o <<"eggo", "generate_eggo_env_vars", "eggo_env_vars">>

\* C11: what a config_cluster invocation has done is always an initial part
\* of: auth key, HDFS home, YARN limits without restart, the whole JDK
\* upgrade, toolchain and developer tools, the packages whose flag is set and
\* only those, the eggo package, the environment variables; a run that ends
\* without error has done all of it, the export last.
C11_ConfigStepsInOrder ==
    frame.op = "config_cluster"
    => /\ IsPrefix(frame.trace, ConfigEvents(frame))
       /\ frame.status = "ok" => frame.trace = ConfigEvents(frame)

C11_Witness ==
    /\ frame.op = "config_cluster"
    /\ frame.status = "ok"
    /\ frame.adam
    /\ ~frame.opencb
    /\ frame.quince
    /\ "adam" \in Range(frame.trace)

\* The place of piece i of template t in the text rendered with params p.
RECURSIVE Offset(_, _, _)
Offset(t, p, i) ==
    IF i = 1
    THEN 0
    ELSE Offset(t, p, i - 1)
         + (IF t[i - 1].ph THEN Len(Str(p[t[i - 1].s])) ELSE 1)

\* C12: a template whose placeholders are all among the eleven keys,
\* rendered with params that bind the eleven keys, gives a text with no
\* placeholder left, in which each placeholder's place holds the text of the
\* bound value (5 for num_workers = 5) and every other piece is the
\* template's own, and nothing else.
C12_RenderedTemplate ==
    LET t == frame.template
        p == frame.params
        r == frame.rendered
    IN  (/\ r.done
         /\ \A i \in DOMAIN t : t[i].ph => t[i].s \in ParamKeys
         /\ ParamKeys \subseteq DOMAIN p)
        => /\ ~r.raised
           /\ \A j \in DOMAIN r.text : ~r.text[j].ph
           /\ Len(r.text) = Offset(t, p, Len(t) + 1)
           /\ \A i \in DOMAIN t :
                 IF t[i].ph
                 THEN IF t[i].s = "num_workers"
                      THEN /\ p[t[i].s].n = 5
                              => r.text[Offset(t, p, i) + 1] = Text("5")
                           /\ p[t[i].s].n = 12
                              => /\ r.text[Offset(t, p, i) + 1] = Text("1")
                                 /\ r.text[Offset(t, p, i) + 2] = Text("2")
                      ELSE r.text[Offset(t, p, i) + 1] = Text(p[t[i].s].s)
                 ELSE r.text[Offset(t, p, i) + 1] = t[i]

C12_Witness ==
    /\ frame.rendered.done
    /\ ~frame.rendered.raised
    /\ frame.template
           = <<Text("a"), Placeholder("num_workers"), Placeholder("region")>>
    /\ frame.params["num_workers"].n = 5
    /\ frame.rendered.text = <<Text("a"), Text("5"), Text("region")>>

\* C13: install_java_8 does its steps in the order of JavaEvents, and the JDK
\* is swapped on a host only while the cluster and the Cloudera Manager
\* server are stopped and that host's agent is stopped.
C13_JdkSwappedOnlyWhileStopped ==
    [][frame.op \in {"install_java_8", "config_cluster"}
       => /\ frame.op = "install_java_8" => IsPrefix(frame'.trace, JavaEvents)
          /\ \A h \in cm'[frame.stack_name].jdk8 \ cm[frame.stack_name].jdk8 :
                /\ ~cm[frame.stack_name].cluster
                /\ ~cm[frame.stack_name].server
                /\ h \notin cm[frame.stack_name].agents]_vars

\* The mutating calls of the cluster-manager API, and the statements that
\* wait on the handles they return.
Commands ==
    {"mgmt_stop", "cluster_stop", "cluster_start", "mgmt_start",
     "deploy_client_config", "restart"}

WaitLabels ==
    {"ij_stop_mgmt_wait", "ij_stop_cluster_wait", "ij_start_cluster_wait",
     "ij_start_mgmt_wait", "ay_deploy_client_config_wait", "ay_restart_wait"}

\* C14: in the events of an invocation every command is followed at once by
\* one wait and every wait follows a command; a command that is the last
\* event has its handle pending with the invocation at the wait for it, or
\* ended by an exception raised in that wait.
C14_EveryHandleWaitedOnce ==
    LET t == frame.trace
    IN  /\ \A i \in DOMAIN t :
              /\ t[i] \in Commands /\ i < Len(t) => t[i + 1] = "wait"
              /\ t[i] \in Commands /\ i = Len(t)
                     => /\ frame.handle = t[i]
                        /\ \/ frame.pc \in WaitLabels
                           \/ /\ frame.pc = "exit"
                              /\ frame.status = "error"
                              /\ frame.failed_at \in WaitLabels
              /\ t[i] = "wait" => i > 1 /\ t[i - 1] \in Commands
        /\ (t = <<>> \/ t[Len(t)] \notin Commands) => frame.handle = "none"

C14_Witness ==
    /\ frame.op = "adjust_yarn_memory_limits"
    /\ frame.restart
    /\ frame.status = "ok"
    /\ frame.trace = YarnEvents(TRUE)

\* C15: a wait that finds its stop, start, deploy or restart command failed
\* leaves the invocation where a successful wait leaves it, at the next
\* statement (or returned) and with no error, and an invocation can end
\* without error after such a failure.
C15_FailedCommandNotSurfaced ==
    [][frame'.cmd_failures > frame.cmd_failures
       => /\ frame.pc \in WaitLabels
          /\ frame'.pc = Advance(frame).pc
          /\ frame'.stack = Advance(frame).stack
          /\ frame'.status = Advance(frame).status
          /\ frame'.err = "none"
          /\ frame'.trace = Append(frame.trace, "wait")]_vars

C15_Witness ==
    /\ frame.op = "install_java_8"
    /\ frame.pc = "exit"
    /\ frame.status = "ok"
    /\ frame.cmd_failures > 0

\* The parallel executions of install_java_8.
FanOutLabels == {"ij_stop_cm_agents", "ij_swap_jdks", "ij_start_cm_agents"}

\* C16: install_java_8 leaves a parallel execution only when the task has
\* been run on every cluster host (the workers, the manager and the master),
\* in whatever order the hosts finished; it goes on to the next statement
\* only if the task succeeded, and so took effect, on all of them, and ends
\* in an error, with no later statement run, if it failed on any.
C16_FanOutAllOrNothing ==
    [][(frame.pc \in FanOutLabels /\ frame'.pc # frame.pc)
       => LET c == cm[frame.stack_name]
          IN  /\ frame.hosts = ClusterIds(frame.stack_name)
              /\ frame.fan = "running"
              /\ frame.todo = {}
              /\ IF frame.failed = {}
                 THEN /\ frame'.pc = After(frame.pc)
                      /\ frame'.status = "running"
                      /\ frame.pc = "ij_stop_cm_agents"
                             => c.agents \cap frame.hosts = {}
                      /\ frame.pc = "ij_swap_jdks"
                             => frame.hosts \subseteq c.jdk8
                      /\ frame.pc = "ij_start_cm_agents"
                             => frame.hosts \subseteq c.agents
                 ELSE /\ frame'.pc = "exit"
                      /\ frame'.status = "error"
                      /\ frame'.trace = frame.trace]_vars

C16_Witness ==
    /\ frame.pc = "exit"
    /\ frame.status = "error"
    /\ frame.failed_at = "ij_swap_jdks"
    /\ Cardinality(frame.hosts) = 2 + MaxWorkers
    /\ Cardinality(frame.failed) = 1
    /\ cm[frame.stack_name].jdk8 = frame.hosts \ frame.failed

\* C17: what adjust_yarn_memory_limits has done is always an initial part
\* of: ResourceManager limits, NodeManager limits, deploy of the client
\* configuration and the wait for it, and then, exactly when restart is
\* true, the cluster's restart and the wait for it; config_cluster, which
\* passes restart=False, restarts no cluster.
C17_YarnLimitsThenDeployThenRestart ==
    /\ frame.op = "adjust_yarn_memory_limits"
           => /\ IsPrefix(frame.trace, YarnEvents(frame.restart))
              /\ frame.status = "ok"
                     => /\ frame.trace = YarnEvents(frame.restart)
                        /\ cm[frame.stack_name].rm_limits
                        /\ cm[frame.stack_name].nm_limits
    /\ frame.op = "config_cluster"
           => /\ ~frame.restart
              /\ "restart" \notin Range(frame.trace)

C17_Witness ==
    /\ frame.op = "config_cluster"
    /\ frame.pc = "cc_install_java_8"
    /\ frame.trace = <<"id.pem", "hdfs_home">> \o YarnEvents(FALSE)
    /\ cm[frame.stack_name].rm_limits
    /\ cm[frame.stack_name].nm_limits

\* C18: a step of describe, and a step of any statement that only locates
\* the launcher, the manager, the master or the workers of a stack, leaves
\* every instance with its tags and run state, and the set of network
\* stacks, as they were, whether the step succeeds or raises.
C18_LookupsAndDescribeReadOnly ==
    [][(/\ frame' # frame
        /\ \/ frame.op = "describe"
           \/ frame'.op = "describe"
           \/ frame.pc \in DOMAIN SingletonLookups \cup {"d_workers"})
       => /\ instances' = instances
          /\ cf_stacks' = cf_stacks]_vars

C18_Witness ==
    /\ frame.op = "describe"
    /\ frame.pc = "exit"
    /\ frame.status = "ok"
    /\ Len(frame.printed) = 4
    /\ frame.lookups = 4
    /\ \E i \in Ids : instances[i].state = "running"

\* C19: whenever a provision invocation runs the bootstrap command on a
\* launcher, that launcher is running and has the director client and the
\* key installed on it.
C19_BootstrapOnPreparedLauncher ==
    [][(/\ frame.op = "provision"
        /\ frame.pc = "rdb_run"
        /\ "bootstrap_invoked" \in Range(frame'.trace))
       => /\ frame.launcher_instance \in Ids
          /\ instances[frame.launcher_instance].state = "running"
          /\ instances[frame.launcher_instance].director_client
          /\ instances[frame.launcher_instance].id_pem]_vars

\* The statements that call the cluster-manager API.
ApiLabels ==
    ScopedLabels \ {"ay_close", "ij_close_1", "ij_close_2", "ev_close"}

\* C20: every step of a statement that calls the cluster-manager API,
\* the cluster start of install_java_8's second block included, is taken
\* while the invocation holds the scoped tunnel on local port 64999 open,
\* and there is never more than one tunnel open on that port.
C20_ApiCallsUnderOneTunnel ==
    [][/\ open_tunnels'[CM_LOCAL_PORT] <= 1
       /\ (frame.pc \in ApiLabels /\ frame' # frame)
              => /\ frame.ctx
                 /\ open_tunnels[CM_LOCAL_PORT] = 1]_vars

C20_Witness ==
    /\ frame.op = "install_java_8"
    /\ frame.pc = "ij_start_cluster_wait"
    /\ frame.handle = "cluster_start"
    /\ open_tunnels[CM_LOCAL_PORT] = 1

\* C21: when install_java_8 has returned without error, a start has been
\* issued for the Cloudera Manager server, the agents, the cluster and the
\* management service, and none of them is left stopped: the server runs,
\* the agent runs on every cluster host, and the cluster and the management
\* service are up.
C21_NothingLeftStoppedWithoutError ==
    (/\ frame.op = "install_java_8"
     /\ frame.pc = "exit"
     /\ frame.status = "ok")
    => /\ {"start_cm_server", "start_cm_agents", "cluster_start",
           "mgmt_start"} \subseteq Range(frame.trace)
       /\ cm[frame.stack_name].server
       /\ frame.hosts \subseteq cm[frame.stack_name].agents
       /\ cm[frame.stack_name].cluster
       /\ cm[frame.stack_name].mgmt

====
